---------------------------- MODULE Spec2Model ----------------------------
(***************************************************************************)
(* Vaadya: a compiler from a textual svara/gamaka notation to MIDI events. *)
(*                                                                         *)
(* The pipeline of src/src/vaadya/__main__.py is                           *)
(*     tokenize -> parse -> song_to_tunesegments -> render                 *)
(* Each stage is modelled as a state machine of its own, started on inputs *)
(* drawn from bounded sets:                                                *)
(*   SpecTokenize   tokenizer.py   tokenize / make_token                   *)
(*   SpecParse      parser.py      SONG / LINE / LIST / SVARA / GAMAKA     *)
(*   SpecResolve    renderer/common.py svara_to_rel_note (both packages)   *)
(*   SpecSegments   renderer/common.py song_to_tunesegments                *)
(*   SpecSample     renderer/common.py GamakaSampler.sample                *)
(*   SpecRender     renderer/midi.py   render / MidiMessenger              *)
(* Python strings are modelled as sequences of one-character strings, so   *)
(* that endswith, slicing and regular-expression matching are computed.    *)
(***************************************************************************)
EXTENDS Integers, Sequences, FiniteSets, TLC

VARIABLES
    unit,          \* which stage this behaviour runs
    \* ---- tokenizer.py: tokenize
    program,       \* the source text (sequence of characters)
    tpos,          \* index of the next character the for loop takes
    line,          \* tokenize's line counter
    col,           \* tokenize's column counter
    wordl,         \* tokenize's accumulation buffer
    yielded,       \* the tokens the generator has yielded so far
    tstate,        \* "running" | "exhausted" | "TokenError"
    \* ---- parser.py: parse
    tokens,        \* the shared token list the parser pops from
    pc,            \* where the recursive descent stands
    song_pos,      \* line, col that SONG.get read from tokens [0]
    song_lines,    \* elements of the song's LIST of LINE
    line_pos,      \* line, col that LINE.get read from tokens [0]
    svaras,        \* elements of the current line's LIST of SVARA
    gamakas,       \* elements of the current line's LIST of GAMAKA
    raised,        \* the exception that ended parse, or NoException
    parsed,        \* the SONG node parse returned
    source,        \* the token list parse was called with
    \* ---- renderer/common.py: svara_to_rel_note
    rsvara,        \* the svara being resolved
    rversion,      \* "vaadya" | "musicprog"
    rresult,       \* the outcome of the call: [done, raised, value]
    \* ---- renderer/common.py: song_to_tunesegments
    song,          \* the SONG node: a sequence of lines
    spc,           \* position inside the generator
    rel_notes,     \* the rel_notes list
    rel_before,    \* rel_notes as it was before the carry-forward loop
    samplers,      \* the local list named gamakas in the source
    segments,      \* the TuneSegments yielded so far
    sraised,       \* the exception that ended the generator, or NoException
    \* ---- renderer/common.py: GamakaSampler.sample
    gname,         \* name of the registered curve
    params,        \* (start_svara, end_svara)
    tnum,          \* t = tnum / TDen
    sampled,       \* [done, val]: val is the returned value times TDen
    \* ---- renderer/midi.py: render
    rsegments,     \* the segments handed to render
    rpc,           \* position inside render
    segi,          \* index of the segment of the outer for loop
    tick,          \* the inner loop's tick
    msgs,          \* the msgs list
    gap_ticks,     \* MidiMessenger.gap_ticks
    current_note,  \* MidiMessenger.current_note
    rraised        \* the exception that ended render, or NoException

tokvars == <<program, tpos, line, col, wordl, yielded, tstate>>
parsevars == <<tokens, pc, song_pos, song_lines, line_pos, svaras, gamakas, raised,
               parsed, source>>
resvars == <<rsvara, rversion, rresult>>
segvars == <<song, spc, rel_notes, rel_before, samplers, segments, sraised>>
samvars == <<gname, params, tnum, sampled>>
rendvars == <<rsegments, rpc, segi, tick, msgs, gap_ticks, current_note, rraised>>
vars == <<unit, tokvars, parsevars, resvars, segvars, samvars, rendvars>>

\* ------------------------------------------------------------------ bounds
MaxText == 3
MaxToks == 4
MaxLines == 2
MaxElems == 2
MaxSvaras == 3
MaxDur == 2
MaxPitch == 3
TDen == 4
MaxSegs == 2

\* ------------------------------------------------------------- common values
\* Python's None
None == "None"
\* no exception has been raised
NoException == [type |-> "None", msg |-> "", line |-> 0, col |-> 0, info |-> <<>>]
\* a nullable integer: Python's None, or the integer v
NoneNote == [isNone |-> TRUE, val |-> 0]
Some(v) == [isNone |-> FALSE, val |-> v]
\* sequences over S of length lo..hi
SeqsOf(S, lo, hi) == UNION {[1..n -> S] : n \in lo..hi}
\* s [:-1]
DropLast(s) == SubSeq(s, 1, Len(s) - 1)

\* =================================================================
\* tokenizer.py
\* =================================================================
Letters == {"s", "a", "r", "i", "p", "x"}
Whitespace == {" ", "\n"}
\* the characters the bounded source texts are made of
Alphabet == {"{", "}", ",", "s", ":", "2", " ", "\n"}
\* "{ sa , ri2 }" with no trailing whitespace
ExampleText == <<"{", " ", "s", "a", " ", ",", " ", "r", "i", "2", " ", "}">>

Token(type, word, l, c) == [type |-> type, word |-> word, line |-> l, col |-> c]
TokenError(word, l, c) ==
    [type |-> "TokenError", msg |-> "Invalid token", line |-> l, col |-> c, info |-> word]

\* re.fullmatch of each pattern of Pattern_TokenType, in order
make_token(word, l, c) ==
    IF word = <<"{">> THEN Token("LIST_START", word, l, c)
    ELSE IF word = <<"}">> THEN Token("LIST_END", word, l, c)
    ELSE IF word = <<",">> \/ word[1] \in Letters THEN Token("SVARA_NAME", word, l, c)
    ELSE IF word[1] = ":" THEN Token("GAMAKA_NAME", word, l, c)
    ELSE TokenError(word, l, c)

\* one iteration of `for char in program`
TokenizeChar ==
    /\ unit = "tokenize"
    /\ tstate = "running"
    /\ tpos <= Len(program)
    /\ LET char == program[tpos]
           col1 == col + 1
           tok == make_token(wordl, line, col1 - Len(wordl))
           bad == char \in Whitespace /\ wordl # <<>> /\ tok.type = "TokenError"
       IN  /\ tpos' = tpos + 1
           /\ IF char \in Whitespace
              THEN /\ wordl' = <<>>
                   /\ yielded' = IF wordl # <<>> /\ ~bad
                                 THEN Append(yielded, tok) ELSE yielded
                   /\ tstate' = IF bad THEN "TokenError" ELSE "running"
                   /\ IF char = "\n"
                      THEN line' = line + 1 /\ col' = 0
                      ELSE line' = line /\ col' = col1
              ELSE /\ wordl' = Append(wordl, char)
                   /\ col' = col1
                   /\ UNCHANGED <<line, yielded, tstate>>
    /\ UNCHANGED <<unit, program, parsevars, resvars, segvars, samvars, rendvars>>

\* the for loop is over: the generator returns (nothing follows the loop)
TokenizeEnd ==
    /\ unit = "tokenize"
    /\ tstate = "running"
    /\ tpos > Len(program)
    /\ tstate' = "exhausted"
    /\ UNCHANGED <<unit, program, tpos, line, col, wordl, yielded>>
    /\ UNCHANGED <<parsevars, resvars, segvars, samvars, rendvars>>

\* =================================================================
\* parser.py
\* =================================================================
ParseError(msg, l, c, info) ==
    [type |-> "ParseError", msg |-> msg, line |-> l, col |-> c, info |-> info]
\* tokens [0] or tokens.pop (0) on an empty list
IndexError ==
    [type |-> "IndexError", msg |-> "list index out of range", line |-> 0, col |-> 0,
     info |-> <<>>]
\* t.GAP: the tokenizer module defines no GAP
AttributeError(attr) ==
    [type |-> "AttributeError", msg |-> attr, line |-> 0, col |-> 0, info |-> <<>>]

Node(l, c, children, name) ==
    [line |-> l, col |-> c, children |-> children, name |-> name]

\* SVARA.get on a non-empty token list.  The loop condition
\* isinstance (tokens [0], t.GAP) raises before it yields a value, so the call
\* never returns a node: the result is the exception it raises.
SVARA_get(toks) ==
    LET tok == Head(toks)
        rest == Tail(toks)
    IN  IF tok.type # "SVARA_NAME"
        THEN ParseError("Expected SVARA_NAME", tok.line, tok.col, <<>>)
        ELSE IF rest = <<>> THEN IndexError
        ELSE AttributeError("GAP")

\* GAMAKA.get on a non-empty token list: [raised, node, rest]
GAMAKA_get(toks) ==
    LET tok == Head(toks)
        rest == Tail(toks)
    IN  IF tok.type # "GAMAKA_NAME"
        THEN [raised |-> ParseError("Expected GAMAKA_NAME", tok.line, tok.col, <<>>),
              node |-> None, rest |-> rest]
        ELSE IF rest = <<>>
        THEN [raised |-> IndexError, node |-> None, rest |-> rest]
        ELSE IF Head(rest).type = "SVARA_NAME"
        THEN [raised |-> SVARA_get(rest), node |-> None, rest |-> Tail(rest)]
        ELSE [raised |-> NoException,
              node |-> Node(tok.line, tok.col, <<>>, tok.word), rest |-> rest]

\* the head of LIST.get_of_type: pop one token and require LIST_START
LIST_open(toks) ==
    IF toks = <<>> THEN IndexError
    ELSE IF Head(toks).type # "LIST_START"
    THEN ParseError("Expected LIST_START", Head(toks).line, Head(toks).col, <<>>)
    ELSE NoException

\* the arity check of LINE.get
LINE_check(pos, slen, glen) ==
    IF slen # glen
    THEN ParseError("Expected equal numbers of SVARAs and GAMAKAs", pos[1], pos[2],
                    <<slen, glen>>)
    ELSE NoException

Raise(exc) ==
    /\ raised' = exc
    /\ pc' = "raised"

\* parse -> SONG.get: read tokens [0], open the LIST of LINE
SONG_get ==
    /\ unit = "parse"
    /\ pc = "SONG.get"
    /\ IF tokens = <<>>
       THEN /\ Raise(IndexError)
            /\ UNCHANGED <<tokens, song_pos>>
       ELSE /\ song_pos' = <<Head(tokens).line, Head(tokens).col>>
            /\ tokens' = Tail(tokens)
            /\ IF LIST_open(tokens) # NoException
               THEN Raise(LIST_open(tokens))
               ELSE pc' = "LIST.LINE" /\ UNCHANGED raised
    /\ UNCHANGED <<song_lines, line_pos, svaras, gamakas, parsed, source>>
    /\ UNCHANGED <<unit, tokvars, resvars, segvars, samvars, rendvars>>

\* one iteration of the while loop of LIST.get_of_type (elem_type = LINE);
\* ends SONG.get on LIST_END, else enters LINE.get and opens its LIST of SVARA
LIST_of_LINE ==
    /\ unit = "parse"
    /\ pc = "LIST.LINE"
    /\ IF tokens = <<>>
       THEN /\ Raise(IndexError)
            /\ UNCHANGED <<tokens, line_pos, svaras, parsed>>
       ELSE IF Head(tokens).type = "LIST_END"
       THEN /\ tokens' = Tail(tokens)
            /\ parsed' = Node(song_pos[1], song_pos[2], song_lines, None)
            /\ pc' = "returned"
            /\ UNCHANGED <<raised, line_pos, svaras>>
       ELSE /\ line_pos' = <<Head(tokens).line, Head(tokens).col>>
            /\ tokens' = Tail(tokens)
            /\ svaras' = <<>>
            /\ IF LIST_open(tokens) # NoException
               THEN Raise(LIST_open(tokens))
               ELSE pc' = "LIST.SVARA" /\ UNCHANGED raised
            /\ UNCHANGED parsed
    /\ UNCHANGED <<song_pos, song_lines, gamakas, source>>
    /\ UNCHANGED <<unit, tokvars, resvars, segvars, samvars, rendvars>>

\* one iteration of the while loop of LIST.get_of_type (elem_type = SVARA);
\* on LIST_END, LINE.get goes on to open its LIST of GAMAKA
LIST_of_SVARA ==
    /\ unit = "parse"
    /\ pc = "LIST.SVARA"
    /\ IF tokens = <<>>
       THEN /\ Raise(IndexError)
            /\ UNCHANGED <<tokens, gamakas>>
       ELSE IF Head(tokens).type = "LIST_END"
       THEN /\ gamakas' = <<>>
            /\ IF LIST_open(Tail(tokens)) # NoException
               THEN /\ Raise(LIST_open(Tail(tokens)))
                    /\ tokens' = IF Tail(tokens) = <<>> THEN <<>> ELSE Tail(Tail(tokens))
               ELSE /\ pc' = "LIST.GAMAKA"
                    /\ tokens' = Tail(Tail(tokens))
                    /\ UNCHANGED raised
       ELSE /\ Raise(SVARA_get(tokens))
            /\ tokens' = Tail(tokens)
            /\ UNCHANGED gamakas
    /\ UNCHANGED <<song_pos, song_lines, line_pos, svaras, parsed, source>>
    /\ UNCHANGED <<unit, tokvars, resvars, segvars, samvars, rendvars>>

\* one iteration of the while loop of LIST.get_of_type (elem_type = GAMAKA);
\* on LIST_END, LINE.get checks the arity and returns the line
LIST_of_GAMAKA ==
    /\ unit = "parse"
    /\ pc = "LIST.GAMAKA"
    /\ IF tokens = <<>>
       THEN /\ Raise(IndexError)
            /\ UNCHANGED <<tokens, gamakas, song_lines>>
       ELSE IF Head(tokens).type = "LIST_END"
       THEN /\ tokens' = Tail(tokens)
            /\ UNCHANGED gamakas
            /\ IF LINE_check(line_pos, Len(svaras), Len(gamakas)) # NoException
               THEN /\ Raise(LINE_check(line_pos, Len(svaras), Len(gamakas)))
                    /\ UNCHANGED song_lines
               ELSE /\ song_lines' = Append(song_lines,
                            Node(line_pos[1], line_pos[2], <<svaras, gamakas>>, None))
                    /\ pc' = "LIST.LINE"
                    /\ UNCHANGED raised
       ELSE LET g == GAMAKA_get(tokens)
            IN  /\ tokens' = g.rest
                /\ UNCHANGED song_lines
                /\ IF g.raised # NoException
                   THEN Raise(g.raised) /\ UNCHANGED gamakas
                   ELSE /\ gamakas' = Append(gamakas, g.node)
                        /\ UNCHANGED <<pc, raised>>
    /\ UNCHANGED <<song_pos, line_pos, svaras, parsed, source>>
    /\ UNCHANGED <<unit, tokvars, resvars, segvars, samvars, rendvars>>

\* =================================================================
\* renderer/common.py: svara_to_rel_note
\* =================================================================
MusicError(l, c, msg, name) ==
    [type |-> "MusicError", msg |-> msg, line |-> l, col |-> c, info |-> name]
\* svara [:-1] on a SVARA node: 'SVARA' object is not subscriptable
TypeError(what) ==
    [type |-> "TypeError", msg |-> what, line |-> 0, col |-> 0, info |-> <<>>]
\* s.line where no s is bound
NameError(what) ==
    [type |-> "NameError", msg |-> what, line |-> 0, col |-> 0, info |-> <<>>]

SvaraIndices ==
    << <<"s", "a">>,
       <<"r", "i", "1">>, <<"r", "i", "2">>,
       <<"g", "a", "1">>, <<"g", "a", "2">>,
       <<"m", "a", "1">>, <<"m", "a", "2">>,
       <<"p", "a">>,
       <<"d", "a", "1">>, <<"d", "a", "2">>,
       <<"n", "i", "1">>, <<"n", "i", "2">> >>
InSvaraIndices(name) == \E i \in 1..Len(SvaraIndices) : SvaraIndices[i] = name
\* SvaraIndices.index (name), 0-based
IndexOf(name) == (CHOOSE i \in 1..Len(SvaraIndices) : SvaraIndices[i] = name) - 1
endswith(s, ch) == Len(s) > 0 /\ s[Len(s)] = ch

Returned(v) == [done |-> TRUE, raised |-> NoException, value |-> v]
Raised(exc) == [done |-> TRUE, raised |-> exc, value |-> NoneNote]
NotCalled == [done |-> FALSE, raised |-> NoException, value |-> NoneNote]

\* vaadya/renderer/common.py: the argument is a SVARA node
svara_to_rel_note(svara) ==
    LET sname == svara.name
    IN  IF sname = <<",">> THEN Returned(NoneNote)
        ELSE IF endswith(sname, "+") \/ endswith(sname, "-")
        THEN Raised(TypeError("'SVARA' object is not subscriptable"))
        ELSE IF ~InSvaraIndices(sname)
        THEN Raised(MusicError(svara.line, svara.col, "Not a svara", sname))
        ELSE Returned(Some(IndexOf(sname) + (0 * 12)))

\* musicprog/renderer/common.py: the argument is the name, a str
musicprog_svara_to_rel_note(svara) ==
    LET name == IF endswith(svara, "+") \/ endswith(svara, "-")
                THEN DropLast(svara) ELSE svara
        octave == IF endswith(svara, "+") THEN 1
                  ELSE IF endswith(svara, "-") THEN -1 ELSE 0
    IN  IF svara = <<",">> THEN Returned(NoneNote)
        ELSE IF ~InSvaraIndices(name)
        THEN Raised(NameError("name 's' is not defined"))
        ELSE Returned(Some(IndexOf(name) + (octave * 12)))

ResolveVaadya ==
    /\ unit = "resolve"
    /\ rversion = "vaadya"
    /\ ~rresult.done
    /\ rresult' = svara_to_rel_note(rsvara)
    /\ UNCHANGED <<unit, rsvara, rversion>>
    /\ UNCHANGED <<tokvars, parsevars, segvars, samvars, rendvars>>

ResolveMusicprog ==
    /\ unit = "resolve"
    /\ rversion = "musicprog"
    /\ ~rresult.done
    /\ rresult' = musicprog_svara_to_rel_note(rsvara.name)
    /\ UNCHANGED <<unit, rsvara, rversion>>
    /\ UNCHANGED <<tokvars, parsevars, segvars, samvars, rendvars>>

\* =================================================================
\* renderer/common.py: GamakaSampler, GamakaCheckpoints
\* =================================================================
\* sorted (s), for a set of integers
RECURSIVE sorted(_)
sorted(S) ==
    IF S = {} THEN <<>>
    ELSE LET m == CHOOSE x \in S : \A y \in S : x <= y
         IN  <<m>> \o sorted(S \ {m})

GamakaSampler(checkpoints) ==
    [checkpoints |-> checkpoints, positions |-> sorted(DOMAIN checkpoints)]

GamakaNames == {<<":">>, <<":", "/">>}
GamakaCheckpoints(name) ==
    IF name = <<":">> THEN GamakaSampler((0 :> 0) @@ (1 :> 0))
    ELSE GamakaSampler((0 :> 0) @@ (1 :> 1))

\* the index i at which the loop of sample stops: the first i with
\* positions [i + 1] >= t, else the last i
Bracket(positions, t) ==
    LET hits == {i \in 1..(Len(positions) - 1) : positions[i + 1] * TDen >= t}
    IN  IF hits = {} THEN Len(positions) - 1
        ELSE CHOOSE i \in hits : \A j \in hits : i <= j

\* GamakaSampler.sample: t is tn / TDen, the result is the returned value
\* times TDen; ps is the tuple (start, end), indexed from 0 in the source
sample(sampler, tn, ps) ==
    LET i == Bracket(sampler.positions, tn)
        s == sampler.positions[i]
        e == sampler.positions[i + 1]
        low == sampler.checkpoints[s]
        high == sampler.checkpoints[e]
    IN  (ps[high + 1] - ps[low + 1]) * tn

Sample ==
    /\ unit = "sample"
    /\ ~sampled.done
    /\ sampled' = [done |-> TRUE, val |-> sample(GamakaCheckpoints(gname), tnum, params)]
    /\ UNCHANGED <<unit, gname, params, tnum>>
    /\ UNCHANGED <<tokvars, parsevars, resvars, segvars, rendvars>>

gamaka_to_sampler(gamaka) ==
    IF gamaka.name \in GamakaNames
    THEN [raised |-> NoException, value |-> GamakaCheckpoints(gamaka.name)]
    ELSE [raised |-> MusicError(gamaka.line, gamaka.col, "Not a gamaka", gamaka.name),
          value |-> GamakaCheckpoints(<<":">>)]

\* =================================================================
\* renderer/common.py: song_to_tunesegments
\* =================================================================
\* TuneSegment.__init__: it sets start_svara, end_svara and gamaka, nothing else
TuneSegment(start_svara, end_svara, gamaka) ==
    [start_svara |-> start_svara, end_svara |-> end_svara, gamaka |-> gamaka]

RECURSIVE Flatten(_)
Flatten(ss) == IF ss = <<>> THEN <<>> ELSE Head(ss) \o Flatten(Tail(ss))
\* SONG.get_svaras, SONG.get_gamakas
get_svaras(sg) == Flatten([i \in 1..Len(sg.children) |-> sg.children[i].children[1]])
get_gamakas(sg) == Flatten([i \in 1..Len(sg.children) |-> sg.children[i].children[2]])

\* the first exception of a list comprehension, or NoException
FirstRaised(rs) ==
    LET bad == {i \in 1..Len(rs) : rs[i].raised # NoException}
    IN  IF bad = {} THEN NoException
        ELSE rs[CHOOSE i \in bad : \A j \in bad : i <= j].raised

\* for n in range (1, len (rel_notes)): the list is updated in place, so
\* rel_notes [n - 1] is read after its own replacement
RECURSIVE CarryFrom(_, _)
CarryFrom(notes, n) ==
    IF n > Len(notes) THEN notes
    ELSE CarryFrom(IF notes[n].isNone THEN [notes EXCEPT ![n] = notes[n - 1]] ELSE notes,
                   n + 1)
\* a carry-forward that reads the list as it was: a continuation takes the
\* unreplaced value before it
CarryForward_Unchained(notes) ==
    [n \in 1..Len(notes) |->
        IF n >= 2 /\ notes[n].isNone THEN notes[n - 1] ELSE notes[n]]
CarryForward(notes) == CarryFrom(notes, 2)

STS_Raise(exc) ==
    /\ sraised' = exc
    /\ spc' = "raised"

\* rel_notes = [svara_to_rel_note (s) for s in song.get_svaras ()]
STS_Resolve ==
    /\ unit = "segments"
    /\ spc = "resolve"
    /\ LET rs == [i \in 1..Len(get_svaras(song)) |-> svara_to_rel_note(get_svaras(song)[i])]
       IN  IF FirstRaised(rs) # NoException
           THEN STS_Raise(FirstRaised(rs)) /\ UNCHANGED rel_notes
           ELSE /\ rel_notes' = [i \in 1..Len(rs) |-> rs[i].value]
                /\ spc' = "carry"
                /\ UNCHANGED sraised
    /\ UNCHANGED <<song, rel_before, samplers, segments>>
    /\ UNCHANGED <<unit, tokvars, parsevars, resvars, samvars, rendvars>>

\* the carry-forward loop
STS_Carry ==
    /\ unit = "segments"
    /\ spc = "carry"
    /\ rel_before' = rel_notes
    /\ rel_notes' = CarryForward(rel_notes)
    /\ spc' = "gamakas"
    /\ UNCHANGED <<song, samplers, segments, sraised>>
    /\ UNCHANGED <<unit, tokvars, parsevars, resvars, samvars, rendvars>>

\* gamakas = [gamaka_to_sampler (g) for g in song.get_gamakas ()]
STS_Gamakas ==
    /\ unit = "segments"
    /\ spc = "gamakas"
    /\ LET gs == [i \in 1..Len(get_gamakas(song)) |-> gamaka_to_sampler(get_gamakas(song)[i])]
       IN  IF FirstRaised(gs) # NoException
           THEN STS_Raise(FirstRaised(gs)) /\ UNCHANGED samplers
           ELSE /\ samplers' = [i \in 1..Len(gs) |-> gs[i].value]
                /\ spc' = "yield"
                /\ UNCHANGED sraised
    /\ UNCHANGED <<song, rel_notes, rel_before, segments>>
    /\ UNCHANGED <<unit, tokvars, parsevars, resvars, samvars, rendvars>>

\* one yield of: for n in range (len (rel_notes) - 1)
STS_Yield ==
    /\ unit = "segments"
    /\ spc = "yield"
    /\ Len(segments) + 1 < Len(rel_notes)
    /\ LET n == Len(segments) + 1
       IN  segments' = Append(segments,
                              TuneSegment(rel_notes[n], rel_notes[n + 1], samplers[n]))
    /\ UNCHANGED <<song, spc, rel_notes, rel_before, samplers, sraised>>
    /\ UNCHANGED <<unit, tokvars, parsevars, resvars, samvars, rendvars>>

\* the yield after the loop: rel_notes [-1], gamakas [-1]
STS_YieldLast ==
    /\ unit = "segments"
    /\ spc = "yield"
    /\ Len(segments) + 1 >= Len(rel_notes)
    /\ IF rel_notes = <<>>
       THEN STS_Raise(IndexError) /\ UNCHANGED segments
       ELSE /\ segments' = Append(segments,
                    TuneSegment(rel_notes[Len(rel_notes)], rel_notes[Len(rel_notes)],
                                samplers[Len(samplers)]))
            /\ spc' = "exhausted"
            /\ UNCHANGED sraised
    /\ UNCHANGED <<song, rel_notes, rel_before, samplers>>
    /\ UNCHANGED <<unit, tokvars, parsevars, resvars, samvars, rendvars>>

\* =================================================================
\* renderer/midi.py
\* =================================================================
\* MidiMessenger (shruti = 64)
Shruti == 64
\* dur_ticks = 200 * seg.duration
TicksPerUnit == 200

\* msgs before the for loop: program_change, then set_pitchbend_range ()
Prelude ==
    << [type |-> "program_change", program |-> 40, time |-> 0],
       [type |-> "control_change", control |-> 100, value |-> 0, time |-> 0],
       [type |-> "control_change", control |-> 101, value |-> 0, time |-> 0],
       [type |-> "control_change", control |-> 6, value |-> 12, time |-> 0],
       [type |-> "control_change", control |-> 38, value |-> 0, time |-> 0],
       [type |-> "control_change", control |-> 100, value |-> 127, time |-> 0],
       [type |-> "control_change", control |-> 101, value |-> 127, time |-> 0] >>

\* MidiMessenger.play_note, after new_note = rel_note + shruti: the messages it
\* yields, each stamped by make_message (the first takes gap_ticks, which is
\* then 0 for the second)
play_note(cur, new_note, gap) ==
    IF cur = Some(new_note) THEN <<>>
    ELSE <<[type |-> "note_on", note |-> new_note, time |-> gap]>>
         \o (IF cur.isNone THEN <<>>
             ELSE <<[type |-> "note_off", note |-> cur.val, time |-> 0]>>)

\* MidiMessenger.bend_pitch of the value seg.gamaka.sample returns at
\* t = (tick / dur_ticks) ** 5.  The value is int ((delta * t / 12) * 8192) with
\* delta = params [high] - params [low]; it is kept as the triple it is computed
\* from, since tick ** 5 does not fit the model checker's integers.
bend_pitch(seg, tk, dur_ticks, gap) ==
    LET i == Bracket(seg.gamaka.positions, 0)
        low == seg.gamaka.checkpoints[seg.gamaka.positions[i]]
        high == seg.gamaka.checkpoints[seg.gamaka.positions[i + 1]]
        ps == <<seg.start_svara.val, seg.end_svara.val>>
    IN  [type |-> "pitchwheel",
         pitch |-> [delta |-> ps[high + 1] - ps[low + 1], tick |-> tk, of |-> dur_ticks],
         time |-> gap]

RenderRaise(exc) ==
    /\ rraised' = exc
    /\ rpc' = "raised"

\* the head of one iteration of `for seg in segments`: play_note, then
\* dur_ticks = 200 * seg.duration
RenderSegment ==
    /\ unit = "render"
    /\ rpc = "segment"
    /\ segi <= Len(rsegments)
    /\ LET seg == rsegments[segi]
           new_note == seg.start_svara.val + Shruti
           out == play_note(current_note, new_note, gap_ticks)
       IN  IF seg.start_svara.isNone
           THEN /\ RenderRaise(TypeError("unsupported operand type(s) for +"))
                /\ UNCHANGED <<msgs, gap_ticks, current_note, tick>>
           ELSE /\ msgs' = msgs \o out
                /\ gap_ticks' = IF out = <<>> THEN gap_ticks ELSE 0
                /\ current_note' = Some(new_note)
                /\ tick' = 0
                /\ IF "duration" \notin DOMAIN seg
                   THEN RenderRaise(AttributeError("duration"))
                   ELSE rpc' = "ticks" /\ UNCHANGED rraised
    /\ UNCHANGED <<rsegments, segi>>
    /\ UNCHANGED <<unit, tokvars, parsevars, resvars, segvars, samvars>>

\* one iteration of `for tick in range (dur_ticks)`; after the last one the
\* outer loop moves to the next segment
RenderTick ==
    /\ unit = "render"
    /\ rpc = "ticks"
    /\ LET seg == rsegments[segi]
           dur_ticks == TicksPerUnit * seg.duration
       IN  /\ tick < dur_ticks
           /\ msgs' = Append(msgs, bend_pitch(seg, tick, dur_ticks, gap_ticks))
           /\ gap_ticks' = 0 + 1
           /\ tick' = tick + 1
           /\ IF tick + 1 < dur_ticks
              THEN UNCHANGED <<rpc, segi>>
              ELSE rpc' = "segment" /\ segi' = segi + 1
    /\ UNCHANGED <<rsegments, current_note, rraised>>
    /\ UNCHANGED <<unit, tokvars, parsevars, resvars, segvars, samvars>>

\* msgs.append (messenger.stop_note ()): stop_note hands current_note to
\* Message as a second positional argument, not as note = ...  What mido makes
\* of it depends on the installed version: Message (type, **args) rejects it
\* with a TypeError; Message (type, skip_checks = False, **args) takes it as
\* skip_checks and leaves note at its default, 0.
RenderStop ==
    /\ unit = "render"
    /\ rpc = "segment"
    /\ segi > Len(rsegments)
    /\ \E mido \in {"positional rejected", "positional is skip_checks"} :
          IF mido = "positional rejected"
          THEN /\ RenderRaise(TypeError("Message.__init__() takes 2 positional arguments"))
               /\ UNCHANGED <<msgs, gap_ticks, current_note>>
          ELSE /\ msgs' = Append(msgs, [type |-> "note_off", note |-> 0, time |-> gap_ticks])
               /\ gap_ticks' = 0
               /\ current_note' = NoneNote
               /\ rpc' = "returned"
               /\ UNCHANGED rraised
    /\ UNCHANGED <<rsegments, segi, tick>>
    /\ UNCHANGED <<unit, tokvars, parsevars, resvars, segvars, samvars>>

\* =================================================================
\* initial states
\* =================================================================
IdleTok ==
    /\ program = <<>> /\ tpos = 1 /\ line = 1 /\ col = 0
    /\ wordl = <<>> /\ yielded = <<>> /\ tstate = "idle"
NoNode == Node(0, 0, <<>>, None)
IdleParse ==
    /\ tokens = <<>> /\ pc = "idle" /\ song_pos = <<0, 0>> /\ song_lines = <<>>
    /\ line_pos = <<0, 0>> /\ svaras = <<>> /\ gamakas = <<>>
    /\ raised = NoException /\ parsed = NoNode /\ source = <<>>
IdleResolve ==
    /\ rsvara = NoNode /\ rversion = "idle" /\ rresult = NotCalled
IdleSegments ==
    /\ song = NoNode /\ spc = "idle" /\ rel_notes = <<>> /\ rel_before = <<>>
    /\ samplers = <<>> /\ segments = <<>> /\ sraised = NoException
IdleSample ==
    /\ gname = <<":">> /\ params = <<0, 0>> /\ tnum = 0
    /\ sampled = [done |-> FALSE, val |-> 0]
IdleRender ==
    /\ rsegments = <<>> /\ rpc = "idle" /\ segi = 1 /\ tick = 0 /\ msgs = <<>>
    /\ gap_ticks = 0 /\ current_note = NoneNote /\ rraised = NoException

\* ---- tokenize (program): every text of at most MaxText characters, and the
\* example text
InitTokenize ==
    /\ unit = "tokenize"
    /\ program \in SeqsOf(Alphabet, 0, MaxText) \cup {ExampleText}
    /\ tpos = 1 /\ line = 1 /\ col = 0
    /\ wordl = <<>> /\ yielded = <<>> /\ tstate = "running"
    /\ IdleParse /\ IdleResolve /\ IdleSegments /\ IdleSample /\ IdleRender

\* ---- parse (tokens): the tokens of words laid out on one line, one space
\* apart
RECURSIVE StartCol(_, _)
StartCol(words, i) ==
    IF i = 1 THEN 1 ELSE StartCol(words, i - 1) + Len(words[i - 1]) + 1
Lex(words) == [i \in 1..Len(words) |-> make_token(words[i], 1, StartCol(words, i))]

W_open == <<"{">>
W_close == <<"}">>
W_sa == <<"s", "a">>
W_comma == <<",">>
W_flat == <<":">>
ParseWords == {W_open, W_close, W_sa, W_comma, W_flat}
\* the words of one line: { svara words } { gamaka words }
LineWords(ln) == <<W_open>> \o ln[1] \o <<W_close, W_open>> \o ln[2] \o <<W_close>>
LineShapes == SeqsOf({W_sa, W_comma}, 0, MaxElems) \X SeqsOf({W_flat}, 0, MaxElems)
LinesWords(lns) == Flatten([i \in 1..Len(lns) |-> LineWords(lns[i])])
\* a song as the code reads it: its lines inside one more pair of braces
Enclosed(ws) == <<W_open>> \o ws \o <<W_close>>
ParseInputs ==
    SeqsOf(ParseWords, 0, MaxToks)
    \cup {LinesWords(lns) : lns \in SeqsOf(LineShapes, 0, MaxLines)}
    \cup {Enclosed(LinesWords(lns)) : lns \in SeqsOf(LineShapes, 0, MaxLines)}

InitParse ==
    /\ unit = "parse"
    /\ \E ws \in ParseInputs : tokens = Lex(ws)
    /\ source = tokens
    /\ pc = "SONG.get" /\ song_pos = <<0, 0>> /\ song_lines = <<>>
    /\ line_pos = <<0, 0>> /\ svaras = <<>> /\ gamakas = <<>>
    /\ raised = NoException /\ parsed = NoNode
    /\ IdleTok /\ IdleResolve /\ IdleSegments /\ IdleSample /\ IdleRender

\* ---- svara_to_rel_note (svara): every vocabulary name with and without an
\* octave mark, the continuation name, and names outside the vocabulary
W_xx == <<"x", "x">>
ResolveNames ==
    {SvaraIndices[i] : i \in 1..Len(SvaraIndices)}
    \cup {Append(SvaraIndices[i], "+") : i \in 1..Len(SvaraIndices)}
    \cup {Append(SvaraIndices[i], "-") : i \in 1..Len(SvaraIndices)}
    \cup {W_comma, W_xx, Append(W_xx, "+"), Append(W_xx, "-")}
InitResolve ==
    /\ unit = "resolve"
    /\ \E name \in ResolveNames, l \in 1..MaxLines, c \in 1..MaxElems, d \in 1..MaxDur :
          rsvara = Node(l, c, <<d>>, name)
    /\ rversion \in {"vaadya", "musicprog"}
    /\ rresult = NotCalled
    /\ IdleTok /\ IdleParse /\ IdleSegments /\ IdleSample /\ IdleRender

\* ---- song_to_tunesegments (song): songs of two lines holding at most
\* MaxSvaras svaras in all (all in the second line, or split in the middle),
\* each line with as many gamakas as svaras (LINE.get returns no other line)
W_ri2 == <<"r", "i", "2">>
W_slide == <<":", "/">>
W_wave == <<":", "~">>
SongSvaraNames == {W_comma, W_sa, W_ri2, W_xx}
SongGamakaNames == {W_flat, W_slide, W_wave}
SongOf(ss, gs, split) ==
    LET sv(i) == Node(1, 2 * i, <<(i % MaxDur) + 1>>, ss[i])
        gm(i) == Node(2, 2 * i, <<>>, gs[i])
        ln(a, b) == Node(1, 1, << [k \in 1..(b - a + 1) |-> sv(a + k - 1)],
                                  [k \in 1..(b - a + 1) |-> gm(a + k - 1)] >>, None)
    IN  Node(1, 1, <<ln(1, split), ln(split + 1, Len(ss))>>, None)
InitSegments ==
    /\ unit = "segments"
    /\ \E n \in 0..MaxSvaras :
          \E ss \in [1..n -> SongSvaraNames], gs \in [1..n -> SongGamakaNames],
             split \in {0, (n + 1) \div 2} :
             song = SongOf(ss, gs, split)
    /\ spc = "resolve" /\ rel_notes = <<>> /\ rel_before = <<>>
    /\ samplers = <<>> /\ segments = <<>> /\ sraised = NoException
    /\ IdleTok /\ IdleParse /\ IdleResolve /\ IdleSample /\ IdleRender

\* ---- sampler.sample (t, params): every registered curve, t in [0, 1] in
\* steps of 1 / TDen
InitSample ==
    /\ unit = "sample"
    /\ gname \in GamakaNames
    /\ params \in (-MaxPitch..MaxPitch) \X (-MaxPitch..MaxPitch) \cup {<<0, 12>>}
    /\ tnum \in 0..TDen
    /\ sampled = [done |-> FALSE, val |-> 0]
    /\ IdleTok /\ IdleParse /\ IdleResolve /\ IdleSegments /\ IdleRender

\* ---- render (segments): the segments song_to_tunesegments builds from
\* carried-forward pitches p and curves g (start = p [n], end = p [n + 1], the
\* last one with start = end), as TuneSegment makes them or, with timed, with
\* a duration attribute set on each
RenderPitches == {0, 2}
SegmentsOf(p, g, timed, d) ==
    [n \in 1..Len(p) |->
        LET seg == TuneSegment(Some(p[n]), Some(p[IF n < Len(p) THEN n + 1 ELSE n]),
                               GamakaCheckpoints(g[n]))
        IN  IF timed THEN seg @@ ("duration" :> d[n]) ELSE seg]
InitRender ==
    /\ unit = "render"
    /\ \E n \in 0..MaxSegs :
          \E p \in [1..n -> RenderPitches], g \in [1..n -> GamakaNames],
             timed \in BOOLEAN, d \in [1..n -> {1}] :
             rsegments = SegmentsOf(p, g, timed, d)
    /\ rpc = "segment" /\ segi = 1 /\ tick = 0 /\ msgs = Prelude
    /\ gap_ticks = 0 /\ current_note = NoneNote /\ rraised = NoException
    /\ IdleTok /\ IdleParse /\ IdleResolve /\ IdleSegments /\ IdleSample

\* =================================================================
\* specifications
\* =================================================================
NextTokenize == TokenizeChar \/ TokenizeEnd
NextParse == SONG_get \/ LIST_of_LINE \/ LIST_of_SVARA \/ LIST_of_GAMAKA
NextResolve == ResolveVaadya \/ ResolveMusicprog
NextSegments == STS_Resolve \/ STS_Carry \/ STS_Gamakas \/ STS_Yield \/ STS_YieldLast
NextSample == Sample
NextRender == RenderSegment \/ RenderTick \/ RenderStop

SpecTokenize == InitTokenize /\ [][NextTokenize]_vars
SpecParse == InitParse /\ [][NextParse]_vars
SpecResolve == InitResolve /\ [][NextResolve]_vars
SpecSegments == InitSegments /\ [][NextSegments]_vars
SpecSample == InitSample /\ [][NextSample]_vars
SpecRender == InitRender /\ [][NextRender]_vars

Init ==
    \/ InitTokenize
    \/ InitParse
    \/ InitResolve
    \/ InitSegments
    \/ InitSample
    \/ InitRender
Next ==
    \/ NextTokenize
    \/ NextParse
    \/ NextResolve
    \/ NextSegments
    \/ NextSample
    \/ NextRender
Spec == Init /\ [][Next]_vars

\* =================================================================
\* properties
\* =================================================================

\* ---- the tokenizer (SpecTokenize)
\* the maximal runs of non-whitespace characters of a text, in order
RECURSIVE RunsFrom(_, _, _)
RunsFrom(text, i, cur) ==
    LET flush == IF cur = <<>> THEN <<>> ELSE <<cur>>
    IN  IF i > Len(text) THEN flush
        ELSE IF text[i] \in Whitespace THEN flush \o RunsFrom(text, i + 1, <<>>)
        ELSE RunsFrom(text, i + 1, Append(cur, text[i]))
Runs(text) == RunsFrom(text, 1, <<>>)

\* C2: when tokenize has run to the end of the text without a TokenError, the
\* words of the tokens it yielded are exactly the maximal runs of
\* non-whitespace characters of the text, in order, the last run included
\* when the text ends without whitespace; for "{ sa , ri2 }" these are the
\* five tokens LIST_START, SVARA_NAME sa, SVARA_NAME ",", SVARA_NAME ri2,
\* LIST_END.
C2_EveryRunYieldsAToken ==
    tstate = "exhausted" =>
        /\ [i \in 1..Len(yielded) |-> yielded[i].word] = Runs(program)
        /\ program = ExampleText =>
              [i \in 1..Len(yielded) |-> yielded[i].type]
                  = <<"LIST_START", "SVARA_NAME", "SVARA_NAME", "SVARA_NAME", "LIST_END">>

\* ---- the parser (SpecParse)
ParseEnded == pc \in {"returned", "raised"}
IsSvaraWord(w) == w # W_comma
\* line shapes whose svara list holds pitch names only
PlainLineShapes == {ln \in LineShapes : \A k \in 1..Len(ln[1]) : IsSvaraWord(ln[1][k])}
NamesOf(nodes) == [k \in 1..Len(nodes) |-> nodes[k].name]

\* C1: parsing a line whose svara list and gamaka list differ in length ends
\* in a ParseError that carries the position of the line's first token and
\* both counts; and every line of a song that parse returns has as many
\* svaras as gamakas.
C1_ArityMismatchIsParseError ==
    /\ \A ln \in PlainLineShapes :
          (/\ Len(ln[1]) # Len(ln[2])
           /\ source = Lex(Enclosed(LineWords(ln)))
           /\ ParseEnded)
          => raised = ParseError("Expected equal numbers of SVARAs and GAMAKAs",
                                 source[2].line, source[2].col, <<Len(ln[1]), Len(ln[2])>>)
    /\ pc = "returned" =>
          \A i \in 1..Len(parsed.children) :
              Len(parsed.children[i].children[1]) = Len(parsed.children[i].children[2])

\* C3: a token sequence made of zero or more well-formed lines, with nothing
\* enclosing them, parses to a song whose lines are those lines in order
\* (none gives a song with no lines).
C3_LinesWithoutDelimiterParse ==
    \A lns \in SeqsOf({ln \in PlainLineShapes : Len(ln[1]) = Len(ln[2])}, 0, MaxLines) :
        (source = Lex(LinesWords(lns)) /\ ParseEnded)
        => /\ pc = "returned"
           /\ Len(parsed.children) = Len(lns)
           /\ \A i \in 1..Len(lns) :
                 /\ NamesOf(parsed.children[i].children[1]) = lns[i][1]
                 /\ NamesOf(parsed.children[i].children[2]) = lns[i][2]

\* C4: a pitch name followed by k continuation markers in a svara list parses
\* to one svara of duration 1 + k, the markers making no svaras of their own.
C4_DurationCountsMarkers ==
    \A k \in 0..(MaxElems - 1) :
        LET sv == <<W_sa>> \o [j \in 1..k |-> W_comma]
        IN  (source = Lex(Enclosed(LineWords(<<sv, <<W_flat>>>>))) /\ ParseEnded)
            => /\ pc = "returned"
               /\ Len(parsed.children) = 1
               /\ parsed.children[1].children[1]
                      = <<Node(source[3].line, source[3].col, <<1 + k>>, W_sa)>>

\* C10: parsing ends in no failure other than a ParseError, whatever the
\* token sequence (empty, or ending inside an open list, included).
C10_OnlyParseErrors ==
    pc = "raised" => raised.type = "ParseError"

\* ---- svara_to_rel_note (SpecResolve)
\* C5: every svara name other than the continuation name resolves to the
\* index of its base name in the vocabulary, plus 12 when it ends in "+" and
\* minus 12 when it ends in "-"; a name whose base is not in the vocabulary
\* fails with a MusicError carrying the svara's position and the name, and
\* with nothing else.
C5_ResolveByVocabulary ==
    (rresult.done /\ rsvara.name # W_comma) =>
        LET name == rsvara.name
            marked == endswith(name, "+") \/ endswith(name, "-")
            base == IF marked THEN DropLast(name) ELSE name
            octave == IF endswith(name, "+") THEN 1 ELSE IF endswith(name, "-") THEN -1 ELSE 0
        IN  IF InSvaraIndices(base)
            THEN rresult = Returned(Some(IndexOf(base) + 12 * octave))
            ELSE /\ rresult.raised.type = "MusicError"
                 /\ rresult.raised.line = rsvara.line
                 /\ rresult.raised.col = rsvara.col
                 /\ rresult.raised.info \in {name, base}

\* ---- song_to_tunesegments (SpecSegments)
\* the carry-forward loop has run
CarryDone ==
    \/ spc \in {"gamakas", "yield", "exhausted"}
    \/ spc = "raised" /\ rel_before # <<>>
\* the nearest index at or before n that held a real pitch before the pass
LastReal(n) ==
    CHOOSE m \in 1..n : /\ ~rel_before[m].isNone
                        /\ \A k \in (m + 1)..n : rel_before[k].isNone

\* C6: after the carry-forward pass, every entry that was a continuation at an
\* index n >= 1 holds the (already carried-forward) value of the entry before
\* it and every other entry is unchanged; so when the first resolved pitch is
\* not a continuation, no continuation remains and every former continuation
\* equals the nearest preceding real pitch, and [0, continuation,
\* continuation] becomes [0, 0, 0].
C6_CarryForward ==
    CarryDone =>
        /\ Len(rel_notes) = Len(rel_before)
        /\ \A n \in 1..Len(rel_before) :
              IF n >= 2 /\ rel_before[n].isNone
              THEN rel_notes[n] = rel_notes[n - 1]
              ELSE rel_notes[n] = rel_before[n]
        /\ (rel_before # <<>> /\ ~rel_before[1].isNone) =>
              \A n \in 1..Len(rel_notes) :
                  /\ ~rel_notes[n].isNone
                  /\ rel_notes[n] = rel_before[LastReal(n)]
        /\ rel_before = <<Some(0), NoneNote, NoneNote>>
              => rel_notes = <<Some(0), Some(0), Some(0)>>
\* C6 witness: the pass has turned [0, continuation, continuation] into [0, 0, 0]
C6_Witness ==
    /\ CarryDone
    /\ rel_before = <<Some(0), NoneNote, NoneNote>>
    /\ rel_notes = <<Some(0), Some(0), Some(0)>>

\* C7: for a song of n >= 1 svaras that does not open with a continuation, the
\* generator yields n segments in phrase order, segment i running from pitch i to pitch i + 1 (the last from the
\* last pitch to itself) with the curve of gamaka i and the duration of svara
\* i, a positive integer.
C7_SegmentsCarryDuration ==
    (spc = "exhausted" /\ Len(get_svaras(song)) >= 1 /\ ~rel_notes[1].isNone) =>
        LET n == Len(get_svaras(song))
        IN  /\ Len(segments) = n
            /\ \A i \in 1..n :
                  /\ segments[i].start_svara = rel_notes[i]
                  /\ segments[i].end_svara = rel_notes[IF i < n THEN i + 1 ELSE n]
                  /\ segments[i].gamaka = GamakaCheckpoints(get_gamakas(song)[i].name)
                  /\ "duration" \in DOMAIN segments[i]
                  /\ segments[i].duration = get_svaras(song)[i].children[1]
                  /\ segments[i].duration > 0

\* ---- GamakaSampler.sample (SpecSample)
\* the weight w (t) times TDen: linear interpolation, over (t - s) / (e - s),
\* of the weights of the first checkpoint pair (s, e) with s <= t <= e
WeightNum(sampler, tn) ==
    LET i == CHOOSE k \in 1..(Len(sampler.positions) - 1) :
                 /\ sampler.positions[k] * TDen <= tn
                 /\ tn <= sampler.positions[k + 1] * TDen
                 /\ \A j \in 1..(k - 1) : ~(tn <= sampler.positions[j + 1] * TDen)
        s == sampler.positions[i]
        e == sampler.positions[i + 1]
        ws == sampler.checkpoints[s]
        we == sampler.checkpoints[e]
    IN  ws * TDen + ((we - ws) * (tn - s * TDen)) \div (e - s)

\* C8: for every registered curve, every (start, end) and every t in [0, 1],
\* the value sample returns is start + w (t) * (end - start); so the full
\* slide from 0 to 12 gives 0 at t = 0 and 12 at t = 1, the flat curve has
\* w (t) = 0, and a segment with start = end has no net pitch change.
C8_SampleIsStartPlusWeighted ==
    sampled.done =>
        /\ sampled.val = params[1] * TDen
                         + WeightNum(GamakaCheckpoints(gname), tnum) * (params[2] - params[1])
        /\ gname = W_flat => WeightNum(GamakaCheckpoints(gname), tnum) = 0
        /\ (gname = W_slide /\ params = <<0, 12>> /\ tnum = 0) => sampled.val = 0
        /\ (gname = W_slide /\ params = <<0, 12>> /\ tnum = TDen) => sampled.val = 12 * TDen

\* ---- render (SpecRender)
\* C9: render of a non-empty segment sequence ends with a finished event
\* stream in which every note_on is followed by a note_off carrying the same
\* note, the last sounding note included.
C9_EveryNoteIsStopped ==
    (rpc \in {"returned", "raised"} /\ rsegments # <<>>) =>
        /\ rpc = "returned"
        /\ \A i \in 1..Len(msgs) :
              msgs[i].type = "note_on" =>
                  \E j \in (i + 1)..Len(msgs) :
                      msgs[j].type = "note_off" /\ msgs[j].note = msgs[i].note

\* f (ms [lo]) + ... + f (ms [hi]), with f the time field (what = "time") or 1 for
\* a pitchwheel message and 0 for any other (what = "bends"); halved, to keep
\* the evaluation shallow on long message lists
RECURSIVE SumOver(_, _, _, _)
SumOver(ms, what, lo, hi) ==
    IF lo > hi THEN 0
    ELSE IF lo = hi
    THEN (IF what = "time" THEN ms[lo].time
          ELSE IF ms[lo].type = "pitchwheel" THEN 1 ELSE 0)
    ELSE LET mid == (lo + hi) \div 2
         IN  SumOver(ms, what, lo, mid) + SumOver(ms, what, mid + 1, hi)
\* sum of the time fields of a list of messages
SumTimes(ms) == SumOver(ms, "time", 1, Len(ms))
\* number of pitchwheel messages in a list of messages
CountBends(ms) == SumOver(ms, "bends", 1, Len(ms))
\* duration * 200 summed over the first k segments
RECURSIVE TicksOf(_, _)
TicksOf(segs, k) ==
    IF k = 0 THEN 0 ELSE TicksPerUnit * segs[k].duration + TicksOf(segs, k - 1)
Timed(segs) == \A i \in 1..Len(segs) : "duration" \in DOMAIN segs[i]
\* the steps of the inner loop render has gone through
StepsDone ==
    IF ~Timed(rsegments) THEN 0
    ELSE TicksOf(rsegments, segi - 1) + (IF rpc = "ticks" THEN tick ELSE 0)

\* C11 (the counter): at every point of render, the time fields of the
\* messages emitted so far plus gap_ticks add up to the number of steps gone
\* through, one pitchwheel message has been emitted per step, and a message
\* just emitted outside the tick loop leaves gap_ticks at 0.
C11_TicksAreConserved ==
    unit = "render" =>
        /\ SumTimes(msgs) + gap_ticks = StepsDone
        /\ CountBends(msgs) = StepsDone
        /\ rpc = "returned" => gap_ticks = 0

\* C11: render emits duration * 200 pitchwheel messages for each segment, one
\* tick apart, so that when it has ended on a non-empty segment sequence every
\* segment has been gone through, the stream holds the sum of duration * 200
\* pitchwheel messages and spans as many ticks; and the counter is conserved
\* throughout.
C11_StreamSpansAllSegments ==
    /\ C11_TicksAreConserved
    /\ (rpc \in {"returned", "raised"} /\ rsegments # <<>>) =>
          /\ Timed(rsegments)
          /\ segi = Len(rsegments) + 1
          /\ CountBends(msgs) = TicksOf(rsegments, Len(rsegments))
          /\ SumTimes(msgs) + gap_ticks = TicksOf(rsegments, Len(rsegments))

=============================================================================
